---- MODULE Spec2Model ----
(***************************************************************************)
(* Model of the ASK / Manchester / framed / checksummed decode pipeline of *)
(* V6.py: demodulate_signal, Manchester_decode, trame_reception,           *)
(* crcreception, ASCII_decode and the staging done by decode_file.         *)
(*                                                                         *)
(* Conventions.                                                            *)
(*  - A Python list of bits is a sequence over {0,1}.                      *)
(*  - A Python str is the sequence of its character codes (chr(v) is v).   *)
(*  - A Python "list or None" is a record [isNone, val]; the None of the   *)
(*    protocol kind is the value NoneStr.                                  *)
(*  - The floating-point carrier product and np.trapz are not computed:    *)
(*    the signal is given by its length N and, for each Ns-sample portion  *)
(*    the demodulator takes, the sign of the integral np.trapz returns     *)
(*    (trapz[k] in {-1,0,1}); the decision val > 0 is modelled as written. *)
(***************************************************************************)
EXTENDS Integers, Sequences, FiniteSets, TLC

VARIABLES
    pc,          \* decode_file: the stage about to run ("idle" outside decode_file)
    N,           \* len(signal)
    Fe_used,     \* sample rate supplied with the signal
    trapz,       \* trapz[k]: sign of np.trapz of the k-th portion of signal*porteuse
    bits_demod,  \* decode_file local
    bits_manch,  \* decode_file local
    data_crc,    \* decode_file local (list or None)
    type_fic,    \* decode_file local ("txt", "?" or None)
    data_ok,     \* decode_file local (list or None)
    message,     \* decode_file local (str)
    outcome,     \* which final print decode_file executed
    trace,       \* history: the stages executed so far, in order
    call,        \* direct call of one function: its name ("" inside decode_file)
    arg,         \* direct call: the argument
    ret,         \* direct call: the returned value
    returned     \* direct call: whether the function has returned

vars == <<pc, N, Fe_used, trapz, bits_demod, bits_manch, data_crc, type_fic,
          data_ok, message, outcome, trace, call, arg, ret, returned>>

pipeVars == <<pc, N, Fe_used, trapz, bits_demod, bits_manch, data_crc, type_fic,
              data_ok, message, outcome, trace>>

callVars == <<call, arg, ret, returned>>

----------------------------------------------------------------------------
(* Global parameters *)

Fe == 44100

baud == 200

Ns == Fe \div baud

----------------------------------------------------------------------------
(* Python values *)

None == [isNone |-> TRUE, val |-> <<>>]

Some(v) == [isNone |-> FALSE, val |-> v]

NoneStr == "None"

Min(a, b) == IF a < b THEN a ELSE b

Max(a, b) == IF a > b THEN a ELSE b

\* Python's index clamping for a slice bound i of a list of length n
PyIdx(n, i) == IF i < 0 THEN Max(n + i, 0) ELSE Min(i, n)

\* s[i:j]
PySlice(s, i, j) == SubSeq(s, PyIdx(Len(s), i) + 1, PyIdx(Len(s), j))

\* s[i:]
PyFrom(s, i) == SubSeq(s, PyIdx(Len(s), i) + 1, Len(s))

\* len(range(start, stop, step)) for step > 0
RangeLen(start, stop, step) ==
    IF stop <= start THEN 0 ELSE (stop - start + step - 1) \div step

\* [b]*n
Rep(b, n) == [k \in 1..n |-> b]

\* int(''.join(map(str, bits)), 2): digits accumulated from the left
BitsToInt(bits) ==
    LET RECURSIVE Acc(_)
        Acc(k) == IF k = 0 THEN 0 ELSE 2 * Acc(k - 1) + bits[k]
    IN  Acc(Len(bits))

\* format(n, 'b'): the binary digits of n >= 0, most significant first
RECURSIVE ToBin(_)
ToBin(n) == IF n < 2 THEN <<n>> ELSE ToBin(n \div 2) \o <<n % 2>>

\* format(n, '04b'): zero-padded to a minimum width of 4
Format04b(n) ==
    LET b == ToBin(n)
    IN  IF Len(b) >= 4 THEN b ELSE Rep(0, 4 - Len(b)) \o b

----------------------------------------------------------------------------
(* demodulate_signal *)

\* for i in range(0, N, Ns): portion = produit[i:i+Ns]; val = np.trapz(portion);
\* bits.append(1 if val > 0 else 0).  The k-th iteration has i = (k-1)*Ns.
\* Fe_used enters only the carrier's time base (inside val); the step is the
\* module-level Ns.
demodulate_signal(n, fe_used, tr) ==
    [k \in 1..RangeLen(0, n, Ns) |->
        LET i   == (k - 1) * Ns
            val == tr[(i \div Ns) + 1]
        IN  IF val > 0 THEN 1 ELSE 0]

----------------------------------------------------------------------------
(* Manchester_decode *)

\* the values i of range(0, len(bits), 2) at which the loop body appends: the
\* loop breaks at an i with i+1 >= len(bits) (only the last i can be one) and
\* appends nothing for a pair that is neither (1,0) nor (0,1)
ManchesterAppends(bits) ==
    LET is == [j \in 1..RangeLen(0, Len(bits), 2) |-> 2 * (j - 1)]
        Appends(i) ==
            /\ ~(i + 1 >= Len(bits))
            /\ \/ <<bits[i + 1], bits[i + 2]>> = <<1, 0>>
               \/ <<bits[i + 1], bits[i + 2]>> = <<0, 1>>
    IN  SelectSeq(is, Appends)

\* variant: an unrecognised pair yields a 0 instead of being dropped
Manchester_decode_keep(bits) ==
    [j \in 1..(Len(bits) \div 2) |->
        IF <<bits[2 * j - 1], bits[2 * j]>> = <<1, 0>> THEN 1 ELSE 0]

Manchester_decode(bits) ==
    LET is == ManchesterAppends(bits)
    IN  [j \in 1..Len(is) |->
           IF <<bits[is[j] + 1], bits[is[j] + 2]>> = <<1, 0>> THEN 1 ELSE 0]

----------------------------------------------------------------------------
(* trame_reception *)

ProtocoleTxt == <<1, 1, 0, 0, 0, 0, 1, 1>>

NoFrame == [data_crc |-> None, type_fic |-> NoneStr]

\* variant: the end flag is not compared
trame_reception_noend(bits) ==
    IF Len(bits) < 16 THEN NoFrame
    ELSE LET core == PySlice(bits, 8, -8)
         IN  IF PySlice(bits, 0, 8) # Rep(1, 8) \/ Len(core) < 8 THEN NoFrame
             ELSE [data_crc |-> Some(PyFrom(core, 8)),
                   type_fic |-> IF PySlice(core, 0, 8) = ProtocoleTxt
                                THEN "txt" ELSE "?"]

\* variant: the protocol byte is left in the returned region
trame_reception_keepproto(bits) ==
    IF Len(bits) < 16 THEN NoFrame
    ELSE LET core == PySlice(bits, 8, -8)
         IN  IF PySlice(bits, 0, 8) # Rep(1, 8) \/ PyFrom(bits, -8) # Rep(0, 8)
                \/ Len(core) < 8
             THEN NoFrame
             ELSE [data_crc |-> Some(core),
                   type_fic |-> IF PySlice(core, 0, 8) = ProtocoleTxt
                                THEN "txt" ELSE "?"]

trame_reception(bits) ==
    IF Len(bits) < 16 THEN NoFrame
    ELSE LET fanion_debut == PySlice(bits, 0, 8)
             fanion_fin   == PyFrom(bits, -8)
             core         == PySlice(bits, 8, -8)
         IN  IF fanion_debut # Rep(1, 8) \/ fanion_fin # Rep(0, 8) THEN NoFrame
             ELSE IF Len(core) < 8 THEN NoFrame
             ELSE LET protocole == PySlice(core, 0, 8)
                      dcrc      == PyFrom(core, 8)
                  IN  [data_crc |-> Some(dcrc),
                       type_fic |-> IF protocole = ProtocoleTxt THEN "txt" ELSE "?"]

----------------------------------------------------------------------------
(* crcreception *)

\* variant: the divisor string mistyped as "1000"
diviseur_1000 == BitsToInt(<<1, 0, 0, 0>>)

diviseur == BitsToInt(<<1, 0, 0, 1>>)

\* variant: the four zero bits are not appended before the reduction
reste_str_noshift(data_8) == Format04b(BitsToInt(data_8) % diviseur)

\* the checksum recomputed for one 8-bit data unit (reste_str)
reste_str(data_8) ==
    LET data_plus_0000 == data_8 \o <<0, 0, 0, 0>>
        data_dec       == BitsToInt(data_plus_0000)
        reste_calc     == data_dec % diviseur
    IN  Format04b(reste_calc)

RECURSIVE CrcLoop(_, _, _, _)
CrcLoop(bits, idx, data_res, integrite_ok) ==
    IF idx + 12 <= Len(bits)
    THEN LET bloc    == PySlice(bits, idx, idx + 12)
             data_8  == PySlice(bloc, 0, 8)
             reste_4 == PyFrom(bloc, 8)
         IN  CrcLoop(bits, idx + 12, data_res \o data_8,
                     IF reste_str(data_8) # reste_4 THEN FALSE ELSE integrite_ok)
    ELSE IF integrite_ok THEN Some(data_res) ELSE None

\* variant: a mismatching block is left out and the other data units are returned
RECURSIVE CrcLoopPartial(_, _, _)
CrcLoopPartial(bits, idx, data_res) ==
    IF idx + 12 <= Len(bits)
    THEN LET bloc   == PySlice(bits, idx, idx + 12)
             data_8 == PySlice(bloc, 0, 8)
         IN  CrcLoopPartial(bits, idx + 12,
                 IF reste_str(data_8) # PyFrom(bloc, 8) THEN data_res
                 ELSE data_res \o data_8)
    ELSE Some(data_res)

crcreception_partial(bits) == CrcLoopPartial(bits, 0, <<>>)

crcreception(bits) == CrcLoop(bits, 0, <<>>, TRUE)

----------------------------------------------------------------------------
(* ASCII_decode *)

\* "[Protocole inconnu ou bits vides]"
Placeholder ==
    <<91, 80, 114, 111, 116, 111, 99, 111, 108, 101, 32, 105, 110, 99, 111,
      110, 110, 117, 32, 111, 117, 32, 98, 105, 116, 115, 32, 118, 105, 100,
      101, 115, 93>>

RECURSIVE AsciiLoop(_, _, _)
AsciiLoop(bits, i, chaine) ==
    IF i >= Len(bits) THEN chaine
    ELSE LET octet == PySlice(bits, i, i + 8)
         IN  IF Len(octet) < 8 THEN chaine
             ELSE AsciiLoop(bits, i + 8, Append(chaine, BitsToInt(octet)))

\* variant: the first octet is skipped
ASCII_decode_skipfirst(bits, tf) ==
    IF tf # "txt" \/ bits = <<>> THEN Placeholder
    ELSE AsciiLoop(bits, 8, <<>>)

\* variant: the gate is "and" instead of "or"
ASCII_decode_andgate(bits, tf) ==
    IF tf # "txt" /\ bits = <<>> THEN Placeholder
    ELSE AsciiLoop(bits, 0, <<>>)

ASCII_decode(bits, tf) ==
    IF tf # "txt" \/ bits = <<>> THEN Placeholder
    ELSE AsciiLoop(bits, 0, <<>>)

----------------------------------------------------------------------------
(* decode_file: the stages after the file has been read (lines 173-195) *)

StepDemodulate ==
    /\ pc = "demodulate_signal"
    /\ bits_demod' = demodulate_signal(N, Fe_used, trapz)
    /\ pc' = "Manchester_decode"
    /\ trace' = Append(trace, "demodulate_signal")
    /\ UNCHANGED <<N, Fe_used, trapz, bits_manch, data_crc, type_fic, data_ok,
                   message, outcome>>
    /\ UNCHANGED callVars

StepManchester ==
    /\ pc = "Manchester_decode"
    /\ bits_manch' = Manchester_decode(bits_demod)
    /\ pc' = "trame_reception"
    /\ trace' = Append(trace, "Manchester_decode")
    /\ UNCHANGED <<N, Fe_used, trapz, bits_demod, data_crc, type_fic, data_ok,
                   message, outcome>>
    /\ UNCHANGED callVars

StepTrame ==
    /\ pc = "trame_reception"
    /\ LET r == trame_reception(bits_manch)
       IN  /\ data_crc' = r.data_crc
           /\ type_fic' = r.type_fic
           /\ IF r.data_crc.isNone \/ r.type_fic = NoneStr
              THEN pc' = "done" /\ outcome' = "framing_error"
              ELSE pc' = "crcreception" /\ outcome' = outcome
    /\ trace' = Append(trace, "trame_reception")
    /\ UNCHANGED <<N, Fe_used, trapz, bits_demod, bits_manch, data_ok, message>>
    /\ UNCHANGED callVars

\* variant: the result of crcreception is not tested before ASCII_decode
StepCrc_unchecked ==
    /\ pc = "crcreception"
    /\ data_ok' = crcreception(data_crc.val)
    /\ pc' = "ASCII_decode" /\ outcome' = outcome
    /\ trace' = Append(trace, "crcreception")
    /\ UNCHANGED <<N, Fe_used, trapz, bits_demod, bits_manch, data_crc, type_fic,
                   message>>
    /\ UNCHANGED callVars

StepCrc ==
    /\ pc = "crcreception"
    /\ data_ok' = crcreception(data_crc.val)
    /\ IF data_ok'.isNone
       THEN pc' = "done" /\ outcome' = "crc_error"
       ELSE pc' = "ASCII_decode" /\ outcome' = outcome
    /\ trace' = Append(trace, "crcreception")
    /\ UNCHANGED <<N, Fe_used, trapz, bits_demod, bits_manch, data_crc, type_fic,
                   message>>
    /\ UNCHANGED callVars

StepAscii ==
    /\ pc = "ASCII_decode"
    /\ message' = ASCII_decode(data_ok.val, type_fic)
    /\ pc' = "done"
    /\ outcome' = "message"
    /\ trace' = Append(trace, "ASCII_decode")
    /\ UNCHANGED <<N, Fe_used, trapz, bits_demod, bits_manch, data_crc, type_fic,
                   data_ok>>
    /\ UNCHANGED callVars

----------------------------------------------------------------------------
(* Direct calls of the four pure stages *)

Call_demodulate_signal ==
    /\ call = "demodulate_signal" /\ ~returned
    /\ ret' = demodulate_signal(arg.N, arg.Fe_used, arg.trapz)
    /\ returned' = TRUE
    /\ UNCHANGED <<call, arg>>
    /\ UNCHANGED pipeVars

Call_Manchester_decode ==
    /\ call = "Manchester_decode" /\ ~returned
    /\ ret' = Manchester_decode(arg)
    /\ returned' = TRUE
    /\ UNCHANGED <<call, arg>>
    /\ UNCHANGED pipeVars

Call_trame_reception ==
    /\ call = "trame_reception" /\ ~returned
    /\ ret' = trame_reception(arg)
    /\ returned' = TRUE
    /\ UNCHANGED <<call, arg>>
    /\ UNCHANGED pipeVars

Call_crcreception ==
    /\ call = "crcreception" /\ ~returned
    /\ ret' = crcreception(arg)
    /\ returned' = TRUE
    /\ UNCHANGED <<call, arg>>
    /\ UNCHANGED pipeVars

----------------------------------------------------------------------------
(* Input domains *)

MaxRaw == 9          \* longest raw bit list given to Manchester_decode

MaxSamples == 450    \* longest signal given to demodulate_signal directly

MaxInterior == 3     \* longest free bit list placed after the protocol byte

MaxBlocks == 2       \* most 12-bit blocks in a multi-block message

MaxTrail == 2        \* most trailing bits after the last complete block

BitSeqs(n) == [1..n -> {0, 1}]

BitSeqsUpTo(n) == UNION {BitSeqs(k) : k \in 0..n}

Flip(s, k) == [s EXCEPT ![k] = 1 - @]

\* a flag and its eight single-bit corruptions
FlagVariants(flag) == {flag} \cup {Flip(flag, k) : k \in 1..8}

\* the bits of a byte value, most significant first
Bin8(b) == [k \in 1..8 |-> (b \div (2 ^ (8 - k))) % 2]

\* the four bits of a value below 16, most significant first
Bin4(v) == [k \in 1..4 |-> (v \div (2 ^ (4 - k))) % 2]

\* the value of a bit list, by positional weights
ValueOf(bits) ==
    LET RECURSIVE Sum(_)
        Sum(k) == IF k > Len(bits) THEN 0
                  ELSE bits[k] * (2 ^ (Len(bits) - k)) + Sum(k + 1)
    IN  Sum(1)

\* a valid checksum block for byte value b: its 8 bits, then (b*16 mod 9) on 4 bits
ValidBlock(b) == Bin8(b) \o Bin4((b * 16) % 9)

\* the same block with its last checksum bit flipped
BadBlock(b) == Flip(ValidBlock(b), 12)

RECURSIVE Concat(_)
Concat(ss) == IF ss = <<>> THEN <<>> ELSE Head(ss) \o Concat(Tail(ss))

SampleBytes == {72, 73}      \* "H", "I"

\* messages of 0..MaxBlocks blocks over SampleBytes, each block valid or corrupted
SampleBlockLists ==
    UNION {[1..n -> {ValidBlock(b) : b \in SampleBytes}
                    \cup {BadBlock(b) : b \in SampleBytes}] : n \in 0..MaxBlocks}

SampleRegions == {Concat(bl) : bl \in SampleBlockLists}

\* every single valid block
AllValidBlocks == {ValidBlock(b) : b \in 0..255}

WavRates == {22050, 48000}

SampleRates == {Fe} \cup WavRates

\* number of Ns-sample portions of an n-sample array, the last one possibly short
NumPortions(n) == (n + Ns - 1) \div Ns

Signs == {-1, 0, 1}

DemodInputs ==
    {[N |-> n, Fe_used |-> f, trapz |-> t] :
        n \in {m \in 0..MaxSamples : NumPortions(m) = 0}, f \in SampleRates,
        t \in {<<>>}}
    \cup
    UNION {{[N |-> n, Fe_used |-> f, trapz |-> t] :
              f \in SampleRates, t \in [1..NumPortions(n) -> Signs]}
           : n \in 1..MaxSamples}

ManchesterInputs == BitSeqsUpTo(MaxRaw)

\* bit lists given to trame_reception
FrameInputs ==
    \* flags intact or corrupted in one bit, around a protocol byte and a free interior
    {s \o p \o d \o e :
        s \in FlagVariants(Rep(1, 8)), e \in FlagVariants(Rep(0, 8)),
        p \in {ProtocoleTxt, Rep(0, 8)}, d \in BitSeqsUpTo(MaxInterior)}
    \cup
    \* intact flags around every protocol byte, alone or followed by one block
    {Rep(1, 8) \o Bin8(p) \o d \o Rep(0, 8) :
        p \in 0..255, d \in {<<>>, ValidBlock(72), <<1>>}}
    \cup
    \* intact flags around an interior too short for a protocol byte
    {Rep(1, 8) \o c \o Rep(0, 8) : c \in BitSeqsUpTo(7)}
    \cup
    \* lists shorter than the two flags
    BitSeqsUpTo(MaxInterior + 3)
    \cup {Rep(1, 8) \o Rep(0, k) : k \in 0..7}
    \cup {Rep(1, k) : k \in 0..15}

\* bit lists given to crcreception
CrcInputs ==
    \* one block: every data byte with every received checksum
    {Bin8(b) \o r : b \in 0..255, r \in BitSeqs(4)}
    \cup
    \* several blocks, valid or corrupted, then trailing bits
    {d \o t : d \in SampleRegions, t \in BitSeqsUpTo(MaxTrail)}
    \cup
    {ValidBlock(b) \o t : b \in SampleBytes, t \in BitSeqs(11)}

\* logical frames sent through decode_file
PipeRegions ==
    SampleRegions
    \cup {ValidBlock(b) \o ValidBlock(c) : b \in {0, 255}, c \in {0, 255}}

PipeTails == {<<>>, <<1>>, <<1, 0, 1, 1, 0, 0, 1, 0, 1, 1, 0>>}

PipeFrames ==
    \* flags and protocol byte intact or not, around a message and a tail
    {s \o p \o d \o t \o e :
        s \in {Rep(1, 8), Flip(Rep(1, 8), 4)}, p \in {ProtocoleTxt, Rep(0, 8)},
        d \in PipeRegions, t \in PipeTails, e \in {Rep(0, 8), Flip(Rep(0, 8), 8)}}
    \cup
    \* every one-byte text message
    {Rep(1, 8) \o ProtocoleTxt \o d \o Rep(0, 8) : d \in AllValidBlocks}
    \cup {<<>>, Rep(1, 8) \o Rep(0, 8), Rep(1, 8) \o <<1, 1, 0>> \o Rep(0, 8)}

\* (1,0) for a logical 1 and (0,1) for a logical 0
ManchesterEncode(bits) ==
    [k \in 1..(2 * Len(bits)) |->
        IF k % 2 = 1 THEN bits[(k + 1) \div 2] ELSE 1 - bits[k \div 2]]

\* the raw bit lists carrying a frame: clean, or with a (0,0) pair in front, a
\* (1,1) pair before the end flag's last bit and an unpaired last bit
Carriers(frame) ==
    {ManchesterEncode(frame)}
    \cup (IF frame = <<>> THEN {<<1>>}
          ELSE {<<0, 0>> \o ManchesterEncode(SubSeq(frame, 1, Len(frame) - 1))
                \o <<1, 1>> \o ManchesterEncode(<<frame[Len(frame)]>>) \o <<1>>})

\* a signal whose portions integrate to the raw bits: positive for 1, zero or
\* negative for 0
SignalOf(raw, short, fe) ==
    [N |-> IF raw = <<>> THEN 0 ELSE Len(raw) * Ns - short,
     Fe_used |-> fe,
     trapz |-> [k \in 1..Len(raw) |->
                  IF raw[k] = 1 THEN 1 ELSE IF k % 2 = 0 THEN 0 ELSE -1]]

PipeSignals ==
    UNION {{SignalOf(raw, c[1], c[2]) :
              raw \in Carriers(f), c \in {<<0, Fe>>, <<Ns - 1, 48000>>}}
           : f \in PipeFrames}

\* the signals of the runs whose termination is checked: every kind of frame
\* carrying at most one block, on a clean carrier
FairFrames ==
    {s \o p \o d \o t \o e :
        s \in {Rep(1, 8), Flip(Rep(1, 8), 4)}, p \in {ProtocoleTxt, Rep(0, 8)},
        d \in {r \in SampleRegions : Len(r) <= 12 * (MaxBlocks - 1)},
        t \in PipeTails, e \in {Rep(0, 8), Flip(Rep(0, 8), 8)}}
    \cup {<<>>, Rep(1, 8) \o Rep(0, 8)}

FairSignals ==
    {SignalOf(ManchesterEncode(f), c[1], c[2]) :
        f \in FairFrames, c \in {<<0, Fe>>, <<Ns - 1, 48000>>}}

----------------------------------------------------------------------------
(* Specifications *)

NoCall ==
    /\ call = "" /\ arg = <<>> /\ ret = <<>> /\ returned = FALSE

NoPipe ==
    /\ pc = "idle" /\ N = 0 /\ Fe_used = Fe /\ trapz = <<>>
    /\ bits_demod = <<>> /\ bits_manch = <<>>
    /\ data_crc = None /\ type_fic = NoneStr /\ data_ok = None
    /\ message = <<>> /\ outcome = "none" /\ trace = <<>>

\* decode_file, once the signal and its sample rate have been read
InitWith(signals) ==
    /\ \E sig \in signals :
          /\ N = sig.N /\ Fe_used = sig.Fe_used /\ trapz = sig.trapz
    /\ pc = "demodulate_signal"
    /\ bits_demod = <<>> /\ bits_manch = <<>>
    /\ data_crc = None /\ type_fic = NoneStr /\ data_ok = None
    /\ message = <<>> /\ outcome = "none" /\ trace = <<>>
    /\ NoCall

Init == InitWith(PipeSignals)

Next ==
    \/ StepDemodulate
    \/ StepManchester
    \/ StepTrame
    \/ StepCrc
    \/ StepAscii

Spec == Init /\ [][Next]_vars

\* decode_file is straight-line code: an enabled stage runs
FairInit == InitWith(FairSignals)

FairSpec == FairInit /\ [][Next]_vars /\ WF_vars(Next)

CallInit ==
    /\ NoPipe
    /\ ret = <<>> /\ returned = FALSE
    /\ \/ call = "demodulate_signal" /\ arg \in DemodInputs
       \/ call = "Manchester_decode" /\ arg \in ManchesterInputs
       \/ call = "trame_reception" /\ arg \in FrameInputs
       \/ call = "crcreception" /\ arg \in CrcInputs

CallNext ==
    \/ Call_demodulate_signal
    \/ Call_Manchester_decode
    \/ Call_trame_reception
    \/ Call_crcreception

CallSpec == CallInit /\ [][CallNext]_vars

----------------------------------------------------------------------------
(* Claims about Manchester_decode, demodulate_signal and trame_reception,   *)
(* checked under CallSpec                                                   *)

\* the j-th non-overlapping pair of a raw bit list
PairAt(bits, j) == <<bits[2 * j - 1], bits[2 * j]>>

IsManchesterPair(p) == p = <<1, 0>> \/ p = <<0, 1>>

\* how many of the first j pairs of a raw bit list are recognised
RecognisedUpTo(bits, j) ==
    Cardinality({i \in 1..j : IsManchesterPair(PairAt(bits, i))})

\* C5: Manchester_decode outputs, in order, one bit per non-overlapping pair that
\* is (1,0) (giving 1) or (0,1) (giving 0) and nothing for any other pair or for a
\* final unpaired bit; an even-length input of recognised pairs only gives exactly
\* length/2 bits, and an input with an unrecognised pair gives strictly fewer than
\* length/2 bits.
C5_ManchesterPairs ==
    (returned /\ call = "Manchester_decode") =>
        LET np == Len(arg) \div 2
        IN  /\ Len(ret) = RecognisedUpTo(arg, np)
            /\ \A j \in 1..np :
                   IsManchesterPair(PairAt(arg, j))
                   => ret[RecognisedUpTo(arg, j)] = PairAt(arg, j)[1]
            /\ ((Len(arg) % 2 = 0
                 /\ \A j \in 1..np : IsManchesterPair(PairAt(arg, j)))
                => /\ 2 * Len(ret) = Len(arg)
                   /\ \A j \in 1..np : ret[j] = (IF PairAt(arg, j) = <<1, 0>>
                                                 THEN 1 ELSE 0))
            /\ ((\E j \in 1..np : ~IsManchesterPair(PairAt(arg, j)))
                => 2 * Len(ret) < Len(arg) /\ Len(ret) < np)

\* C5 witness: an odd-length input with a dropped pair and two decoded pairs
C5_Witness ==
    /\ returned /\ call = "Manchester_decode"
    /\ arg = <<1, 0, 1, 1, 0, 1, 1>>
    /\ ret = <<1, 0>>

\* C6: the number of bits demodulate_signal returns is ceil(N / samplesPerSymbol)
\* with samplesPerSymbol = floor(sampleRate / 200) computed from the sample rate
\* passed with the signal.
C6_BitCountFromFeUsed ==
    (returned /\ call = "demodulate_signal") =>
        LET samplesPerSymbol == arg.Fe_used \div baud
        IN  Len(ret) = (arg.N + samplesPerSymbol - 1) \div samplesPerSymbol

\* C2: trame_reception returns (None, None) for a list shorter than 16 bits, or
\* whose first 8 bits are not all ones, or whose last 8 bits are not all zeros, or
\* whose interior is shorter than 8 bits; otherwise it returns the bits after the
\* first 16 and before the last 8 with kind "txt" exactly when bits 8..15 are
\* 11000011 and kind "?" otherwise.
C2_FramingContract ==
    (returned /\ call = "trame_reception") =>
        LET n == Len(arg)
            failure ==
                \/ n < 16
                \/ \E k \in 1..8 : arg[k] # 1
                \/ \E k \in (n - 7)..n : arg[k] # 0
                \/ n - 16 < 8
        IN  IF failure
            THEN ret.data_crc = None /\ ret.type_fic = NoneStr
            ELSE /\ ret.data_crc = Some([k \in 1..(n - 24) |-> arg[16 + k]])
                 /\ ret.type_fic =
                      (IF <<arg[9], arg[10], arg[11], arg[12], arg[13], arg[14],
                            arg[15], arg[16]>> = <<1, 1, 0, 0, 0, 0, 1, 1>>
                       THEN "txt" ELSE "?")

\* C2 witness: an accepted frame of unknown kind with a non-empty payload
C2_Witness ==
    /\ returned /\ call = "trame_reception"
    /\ ret.type_fic = "?"
    /\ ret.data_crc.val = <<1, 0, 1>>

\* C7 as stated: every accepted frame has a payload+checksum region whose length
\* is a multiple of 12 bits.
C7_RegionMultipleOf12 ==
    (returned /\ call = "trame_reception" /\ ~ret.data_crc.isNone) =>
        Len(ret.data_crc.val) % 12 = 0

\* C7 amended: every accepted frame has a payload+checksum region of exactly
\* len(bits) - 24 >= 0 bits, whatever that length is modulo 12.
C7_RegionLength ==
    (returned /\ call = "trame_reception" /\ ~ret.data_crc.isNone) =>
        /\ Len(arg) >= 24
        /\ Len(ret.data_crc.val) = Len(arg) - 24

\* C7 witness: an accepted frame whose region has 1 bit
C7_Witness ==
    /\ returned /\ call = "trame_reception"
    /\ ~ret.data_crc.isNone
    /\ Len(arg) = 25
    /\ Len(ret.data_crc.val) = 1

----------------------------------------------------------------------------
(* Claims about crcreception, checked under CallSpec *)

\* the j-th 12-bit block of a bit list, its data unit and its received checksum
BlockAt(bits, j) == [k \in 1..12 |-> bits[12 * (j - 1) + k]]

DataAt(bits, j) == [k \in 1..8 |-> bits[12 * (j - 1) + k]]

CheckAt(bits, j) == [k \in 1..4 |-> bits[12 * (j - 1) + 8 + k]]

\* the block's checksum is the 4-bit binary of (data value * 16) mod 9
BlockMatches(bits, j) ==
    CheckAt(bits, j) = Bin4((ValueOf(DataAt(bits, j)) * 16) % 9)

\* C3: crcreception is all-or-nothing over the complete 12-bit blocks of its
\* input: None if some block's checksum differs from the 4-bit binary of
\* (data value * 16) mod 9, otherwise the data units of all blocks, in order,
\* checksums stripped; trailing bits are ignored and no proper subset of the
\* data units is ever returned.
C3_AllOrNothing ==
    (returned /\ call = "crcreception") =>
        LET nb == Len(arg) \div 12
        IN  IF \E j \in 1..nb : ~BlockMatches(arg, j)
            THEN ret = None
            ELSE /\ ~ret.isNone
                 /\ Len(ret.val) = 8 * nb
                 /\ \A j \in 1..nb : \A k \in 1..8 :
                        ret.val[8 * (j - 1) + k] = arg[12 * (j - 1) + k]

\* C3 witness: two valid blocks followed by two trailing bits, data returned
C3_Witness ==
    /\ returned /\ call = "crcreception"
    /\ Len(arg) = 26
    /\ ~ret.isNone
    /\ Len(ret.val) = 16

\* C9: for every single 12-bit block crcreception accepts, flipping any one of
\* its 8 data bits, the 4 checksum bits unchanged, gives a block it rejects.
C9_DataBitFlipDetected ==
    (returned /\ call = "crcreception" /\ Len(arg) = 12 /\ ~ret.isNone) =>
        \A k \in 1..8 : crcreception(Flip(arg, k)) = None

\* C9 witness: the accepted block of byte 0x48
C9_Witness ==
    /\ returned /\ call = "crcreception"
    /\ arg = <<0, 1, 0, 0, 1, 0, 0, 0, 0, 0, 0, 0>>
    /\ ret = Some(<<0, 1, 0, 0, 1, 0, 0, 0>>)

\* remainder of the shift-XOR division over GF(2) of bits by gen
RECURSIVE Gf2Remainder(_, _)
Gf2Remainder(bits, gen) ==
    IF Len(bits) < Len(gen) THEN bits
    ELSE IF Head(bits) = 0 THEN Gf2Remainder(Tail(bits), gen)
    ELSE Gf2Remainder(
             Tail([k \in 1..Len(bits) |->
                     IF k <= Len(gen) THEN (bits[k] + gen[k]) % 2 ELSE bits[k]]),
             gen)

\* the degree-3 CRC of a data unit with generator 1001, on 4 bits
Crc1001(data_8) == <<0>> \o Gf2Remainder(data_8 \o <<0, 0, 0, 0>>, <<1, 0, 0, 1>>)

\* C10 as stated: the checksum the validator recomputes for a data unit equals
\* the GF(2) CRC remainder of the unit followed by four zero bits, generator 1001
\* (so an accepted block carries that CRC).
C10_EqualsGf2Crc ==
    (returned /\ call = "crcreception" /\ Len(arg) = 12 /\ ~ret.isNone) =>
        CheckAt(arg, 1) = Crc1001(DataAt(arg, 1))

\* C10 amended: the checksum the validator recomputes for a data unit D is the
\* integer remainder (16 * D) mod 9 on 4 bits, a value in 0..8: a single block is
\* accepted exactly when its checksum bits have that value.
C10_IntegerModulo ==
    (returned /\ call = "crcreception" /\ Len(arg) = 12) =>
        LET expected == (16 * ValueOf(DataAt(arg, 1))) % 9
        IN  /\ expected \in 0..8
            /\ ~ret.isNone <=> ValueOf(CheckAt(arg, 1)) = expected

\* C10 witness: byte 5 is accepted with checksum 1000, which is not its CRC
C10_Witness ==
    /\ returned /\ call = "crcreception"
    /\ arg = <<0, 0, 0, 0, 0, 1, 0, 1, 1, 0, 0, 0>>
    /\ ~ret.isNone
    /\ Crc1001(DataAt(arg, 1)) = <<0, 0, 1, 1>>

----------------------------------------------------------------------------
(* Claims about the pipeline of decode_file, checked under Spec and FairSpec *)

\* the logical frame has intact flags and room for a protocol byte
FlagsIntact(bits) ==
    /\ Len(bits) >= 24
    /\ \A k \in 1..8 : bits[k] = 1
    /\ \A k \in (Len(bits) - 7)..Len(bits) : bits[k] = 0

ProtocolOf(bits) == [k \in 1..8 |-> bits[8 + k]]

\* the bits between the protocol byte and the end flag
RegionOf(bits) == [k \in 1..(Len(bits) - 24) |-> bits[16 + k]]

AllBlocksMatch(region) == \A j \in 1..(Len(region) \div 12) : BlockMatches(region, j)

\* start flag, text protocol, n >= 1 valid blocks and nothing else, end flag
IsTextFrame(bits) ==
    /\ FlagsIntact(bits)
    /\ ProtocolOf(bits) = <<1, 1, 0, 0, 0, 0, 1, 1>>
    /\ Len(bits) >= 36
    /\ (Len(bits) - 24) % 12 = 0
    /\ AllBlocksMatch(RegionOf(bits))

\* the byte values b1..bn carried by a region
BytesOf(region) == [j \in 1..(Len(region) \div 12) |-> ValueOf(DataAt(region, j))]

StageOrder ==
    <<"demodulate_signal", "Manchester_decode", "trame_reception", "crcreception",
      "ASCII_decode">>

\* C1: a logical bit list made of the start flag, the text protocol byte, for
\* each byte b1..bn (n >= 1) its 8 bits and the 4-bit binary of (bi*16 mod 9),
\* and the end flag, passed through trame_reception, crcreception and
\* ASCII_decode, gives exactly the string chr(b1)..chr(bn).
C1_TextFrameDecodes ==
    (pc = "done" /\ IsTextFrame(bits_manch)) =>
        /\ trace = StageOrder
        /\ outcome = "message"
        /\ message = BytesOf(RegionOf(bits_manch))

\* C1 witness: the frame of "HI" decoded to "HI"
C1_Witness ==
    /\ pc = "done"
    /\ bits_manch = Rep(1, 8) \o <<1, 1, 0, 0, 0, 0, 1, 1>>
                    \o <<0, 1, 0, 0, 1, 0, 0, 0,  0, 0, 0, 0>>
                    \o <<0, 1, 0, 0, 1, 0, 0, 1,  0, 1, 1, 1>>
                    \o Rep(0, 8)
    /\ message = <<72, 73>>

\* C4: for a frame with intact flags and every complete checksum block valid,
\* if the protocol byte is not 11000011, or if the region holds fewer than 12
\* bits (no data bits after stripping), decode_file reaches ASCII_decode and the
\* result is the placeholder: no framing failure, no checksum failure, no string
\* built from the payload.
C4_PlaceholderResult ==
    (/\ pc = "done"
     /\ FlagsIntact(bits_manch)
     /\ AllBlocksMatch(RegionOf(bits_manch))
     /\ \/ ProtocolOf(bits_manch) # <<1, 1, 0, 0, 0, 0, 1, 1>>
        \/ Len(RegionOf(bits_manch)) < 12)
    => /\ trace = StageOrder
       /\ outcome = "message"
       /\ message = Placeholder

\* C4 witness: an all-zero protocol byte before two valid blocks
C4_Witness ==
    /\ pc = "done"
    /\ FlagsIntact(bits_manch)
    /\ ProtocolOf(bits_manch) = Rep(0, 8)
    /\ type_fic = "?"
    /\ data_ok = Some(Bin8(72) \o Bin8(73))
    /\ message = Placeholder

\* the stages run so far are the first ones of the pipeline, each once, in order
TraceIsPrefix ==
    /\ Len(trace) <= Len(StageOrder)
    /\ \A k \in 1..Len(trace) : trace[k] = StageOrder[k]

\* what has run when each outcome is reported, and before any is
OutcomeMatchesTrace ==
    /\ outcome \in {"none", "framing_error", "crc_error", "message"}
    /\ (pc = "done") <=> (outcome # "none")
    /\ (pc # "done") => Len(trace) < 5 /\ pc = StageOrder[Len(trace) + 1]
    /\ (outcome = "framing_error") => Len(trace) = 3
    /\ (outcome = "crc_error") => Len(trace) = 4
    /\ (outcome = "message") => Len(trace) = 5

\* an unknown protocol byte together with a bad block ends in the checksum failure
BadBlockBeforeUnknownProtocol ==
    (/\ pc = "done"
     /\ FlagsIntact(bits_manch)
     /\ ProtocolOf(bits_manch) # <<1, 1, 0, 0, 0, 0, 1, 1>>
     /\ ~AllBlocksMatch(RegionOf(bits_manch)))
    => outcome = "crc_error"

\* C8: decode_file moves only forward through its stages, none re-entered; a
\* framing failure stops it before crcreception and ASCII_decode, a checksum
\* failure before ASCII_decode; every run eventually ends with exactly one of a
\* framing error, a checksum error or an assembler result, and stays there; an
\* unknown protocol byte with a bad checksum block ends in the checksum failure.
C8_ForwardOnlyAndTotal ==
    /\ [](TraceIsPrefix /\ OutcomeMatchesTrace /\ BadBlockBeforeUnknownProtocol)
    /\ [][Len(trace') = Len(trace) + 1 /\ pc # "done"]_vars
    /\ <>(pc = "done" /\ outcome # "none")

\* C8 witness: an unknown protocol byte and a bad block, ended by the checksum failure
C8_Witness ==
    /\ pc = "done"
    /\ type_fic = "?"
    /\ outcome = "crc_error"
    /\ trace = SubSeq(StageOrder, 1, 4)

====
